---- MODULE Spec2Model ----
(***************************************************************************)
(* A verification model of the OptionGreek web client:                     *)
(*   - WSClient, the reconnecting WebSocket wrapper (frontend/lib/api.ts), *)
(*     driven by the hooks useMarketData / useAlerts;                      *)
(*   - api.fetch, the REST wrapper (frontend/lib/api.ts);                  *)
(*   - the Dashboard view switcher and the feature panels with their       *)
(*     data-fetching effects.                                              *)
(* Each subsystem has its own specification (SpecWS, SpecFetch, SpecUI);   *)
(* the variables of the other subsystems stay parked while one runs.       *)
(***************************************************************************)
EXTENDS Integers, Sequences, FiniteSets, TLC

(***************************************************************************)
(* Bounds of the model (not program constants).                            *)
(***************************************************************************)
\* number of WebSocket objects one WSClient may create in a run
MaxSockets == 7
\* number of requests a setInterval-driven panel may have outstanding at once
MaxInflight == 1
\* number of scan / analysis requests HighVolumeScanner may have outstanding at once
MaxScans == 2
\* number of calls of one kind MCPTradingPanel may have outstanding at once
MaxCalls == 1
MaxArrivals == 6
MaxTexts == 1
MaxUpdates == 2
MaxAuthCalls == 3

(***************************************************************************)
(* Program constants.                                                      *)
(***************************************************************************)
\* api.ts:96  private reconnectInterval = 3000
reconnectInterval == 3000
\* api.ts:97  private maxReconnectAttempts = 5
maxReconnectAttempts == 5

VARIABLES
    \* ---- WSClient and the hook that owns it --------------------------------
    hookKind,           \* "market" (useMarketData) or "alerts" (useAlerts)
    hook,               \* "init" | "waiting" (subscribe timer pending) | "mounted" | "unmounted"
    sockets,            \* readyState of every WebSocket created by the client, in creation order
    ws,                 \* this.ws: index into sockets, 0 for null
    reconnectAttempts,  \* this.reconnectAttempts
    timers,             \* number of pending setTimeout(() => this.connect(), reconnectInterval)
    delays,             \* history: the delays of the reconnects scheduled since the last open
    connected,          \* the hook's connected state (shown as LIVE / OFFLINE)
    subscribedOn,       \* history: index of the socket the subscribe frame was written to, 0 for none
    origin,             \* history: per socket, the call that created it
    wsEvent,            \* history: the event handled last
    \* ---- one call of api.fetch -----------------------------------------------
    fPc,                \* "off" | "start" | "ok_body" | "error_body" | "done"
    fResp,              \* the Response the browser's fetch() resolved with
    fOut,               \* how the promise returned by api.fetch settled
    \* ---- the component tree and its data fetching ----------------------------
    root,               \* the component the page mounts: "Dashboard" or a stand-alone panel
    currentView,        \* Dashboard: useState<ViewType>
    qdTab,              \* QuantDashboard: activeTab
    qdSelected,         \* QuantDashboard: selectedStock
    qdTop,              \* QuantDashboard: topStocks (a sequence of symbols)
    qdLoading,          \* QuantDashboard: loadingStocks
    saFilter,           \* StockAnalysis: filter
    inflight,           \* per panel: number of HTTP requests that have not completed yet
    query,              \* per useApiQuery panel: the query result (status, data present)
    last,               \* history: what the last step was caused by and the requests it issued
    \* ---- HighVolumeScanner ----------------------------------------------------
    hvsPhase,           \* phase
    hvsTimeframe,       \* timeframe
    hvsScanResult,      \* scanResult: the response kept, with the timeframe it was asked for
    hvsAnalysis,        \* analysisResult is set
    hvsLoading,         \* loading
    hvsError,           \* error: "none" for null
    hvsScans,           \* outstanding scanHighVolume requests, counted per (timeframe, issued by Retry)
    hvsAnalyses,        \* outstanding bulkOCAnalysis requests
    \* ---- VATScanner -----------------------------------------------------------
    vatSymbol,          \* selectedSymbol
    \* ---- MCPTradingPanel ------------------------------------------------------
    mcpTab,             \* activeTab
    mcpLoading,         \* loading
    mcpError,           \* error: "none" for null
    mcpStatus,          \* mcpStatus: "null", or the authenticated flag of the status fetched last
    mcpOrderResult,     \* orderResult is set
    mcpCalls,           \* outstanding backend calls of the panel, counted per kind
    \* ---- ActiveStrategy and the market-state responses it handles ------------
    asStrategy,         \* strategy
    asLoading,          \* loading
    asInflight,         \* getMarketState() requests that have not completed yet
    asOutcome,          \* history: "none", or how the request handled last settled
    asData,             \* history: the response handled last
    \* ---- the alert list of useAlerts and of the polling RealTimeAlerts -------
    alSource,           \* which inputs arrive: "texts" / "stream" (useAlerts), "polling" (RealTimeAlerts)
    alerts,             \* alerts: the list kept in state
    alClock,            \* number of arrivals so far; stands for Date.now()
    alLast,             \* history: the payload handled last
    \* ---- the market data kept by useMarketData ------------------------------
    mdData,             \* data: per symbol, the merged fields of its updates
    mdNow,              \* number of messages handled; stands for new Date().getTime()
    mdLast,             \* history: the message handled last
    \* ---- useAuth, as used by AuthButton -------------------------------------
    authPage,           \* "rendered" (effects not run yet), "mounted", "redirected"
    authStatus,         \* status: "null", or the data of /auth/status
    authLoading,        \* loading
    authError,          \* error: "null" or a message
    authCalls,          \* the requests in flight: [id, op, chained]
    authIssued,         \* number of requests issued so far
    authLast            \* history: the step taken last

wsVars == <<hookKind, hook, sockets, ws, reconnectAttempts, timers, delays,
            connected, subscribedOn, origin, wsEvent>>
fetchVars == <<fPc, fResp, fOut>>
dashVars == <<root, currentView, qdTab, qdSelected, qdTop, qdLoading, saFilter>>
hvsVars == <<hvsPhase, hvsTimeframe, hvsScanResult, hvsAnalysis, hvsLoading, hvsError,
             hvsScans, hvsAnalyses>>
vatVars == <<vatSymbol>>
mcpVars == <<mcpTab, mcpLoading, mcpError, mcpStatus, mcpOrderResult, mcpCalls>>
stratVars == <<asStrategy, asLoading, asInflight, asOutcome, asData>>
alertVars == <<alSource, alerts, alClock, alLast>>
mdVars == <<mdData, mdNow, mdLast>>
authVars == <<authPage, authStatus, authLoading, authError, authCalls, authIssued, authLast>>
uiVars == <<dashVars, inflight, query, last, hvsVars, vatVars, mcpVars, stratVars, alertVars,
            mdVars, authVars>>

vars == <<wsVars, fetchVars, uiVars>>

(***************************************************************************)
(* The state a subsystem is parked in while another specification runs.    *)
(***************************************************************************)
NoResponse == [status |-> 0, body |-> [kind |-> "none", detail |-> [t |-> "undefined", s |-> "undefined"]]]
Pending == [kind |-> "pending", value |-> "", error |-> "", message |-> ""]

WSParked ==
    /\ hookKind = "market"
    /\ hook = "off"
    /\ sockets = << >>
    /\ ws = 0
    /\ reconnectAttempts = 0
    /\ timers = 0
    /\ delays = << >>
    /\ connected = FALSE
    /\ subscribedOn = 0
    /\ origin = << >>
    /\ wsEvent = "none"

FetchParked == fPc = "off" /\ fResp = NoResponse /\ fOut = Pending

\* ActiveStrategy.tsx:18-22: the initial strategy, also set when a request rejects
InitialStrategy ==
    [status |-> "scanning", strategy_type |-> "Adjustment Setup (A1)",
     strike |-> "undefined", action |-> "undefined"]
NoAdjustment == [present |-> FALSE, detected |-> FALSE, setup |-> "null", action |-> FALSE]
NoData ==
    [null |-> TRUE, state |-> "", tradable |-> FALSE, atm_strike |-> FALSE,
     adjustment |-> NoAdjustment]

StrategyParked ==
    /\ asStrategy = InitialStrategy
    /\ asLoading = TRUE
    /\ asInflight = 0
    /\ asOutcome = "none"
    /\ asData = NoData

PanelsParked ==
    /\ root = "off"
    /\ currentView = "dashboard"
    /\ qdTab = "signal"
    /\ qdSelected = "NSE:NIFTY50-INDEX"
    /\ qdTop = << >>
    /\ qdLoading = TRUE
    /\ saFilter = "all"
    /\ inflight = << >>
    /\ query = << >>
    /\ last = << >>
    /\ hvsPhase = "scanning"
    /\ hvsTimeframe = "15"
    /\ hvsScanResult = [tf |-> "none", stocks |-> FALSE]
    /\ hvsAnalysis = FALSE
    /\ hvsLoading = TRUE
    /\ hvsError = "none"
    /\ hvsScans = << >>
    /\ hvsAnalyses = 0
    /\ vatSymbol = "NSE:NIFTY50-INDEX"
    /\ mcpTab = "portfolio"
    /\ mcpLoading = FALSE
    /\ mcpError = "none"
    /\ mcpStatus = "null"
    /\ mcpOrderResult = FALSE
    /\ mcpCalls = << >>

\* a payload: a string, or an object whose fields are strings or missing
\* ("undefined" stands for a missing field)
NoPayload ==
    [isString |-> FALSE, s |-> "undefined", message |-> "undefined", reason |-> "undefined",
     description |-> "undefined", type |-> "undefined"]

AlertsParked ==
    /\ alSource = "off"
    /\ alerts = << >>
    /\ alClock = 0
    /\ alLast = NoPayload

\* an update, or an entry of data, none of whose fields is set
\* ("undefined" and 0 stand for a missing field)
NoFields ==
    [symbol |-> "undefined", s |-> "undefined", d |-> "undefined", ltp |-> "undefined",
     vol |-> "undefined", last_updated |-> 0]
NoMessage == [type |-> "none", status |-> "", hasData |-> FALSE, data |-> NoFields]

MarketDataParked ==
    /\ mdData = << >>
    /\ mdNow = 0
    /\ mdLast = NoMessage

NoAuthStep == [ev |-> "none", ok |-> FALSE, data |-> "null", message |-> ""]

AuthParked ==
    /\ authPage = "none"
    /\ authStatus = "null"
    /\ authLoading = FALSE
    /\ authError = "null"
    /\ authCalls = {}
    /\ authIssued = 0
    /\ authLast = NoAuthStep

UIParked ==
    PanelsParked /\ StrategyParked /\ AlertsParked /\ MarketDataParked /\ AuthParked


(***************************************************************************)
(* WSClient (frontend/lib/api.ts:92-162)                                   *)
(***************************************************************************)
HookKinds == {"market", "alerts"}

\* a socket that can still fire events (WebSocket readyState 0, 1, 2)
Live(s) == s \in {"CONNECTING", "OPEN", "CLOSING"}

\* connect(): this.ws = new WebSocket(url); the handlers are bound to the client
ConnectSockets(socks) == Append(socks, "CONNECTING")

\* attemptReconnect(): the guard of the if
CanReconnectOffByOne(n) == n <= maxReconnectAttempts
CanReconnect(n) == n < maxReconnectAttempts

\* attemptReconnect(): the delay handed to setTimeout for attempt number n
ReconnectDelayBackoff(n) == reconnectInterval * n
ReconnectDelay(n) == reconnectInterval

\* send(data): true when the frame is written to the current socket,
\* false when send() falls into its else branch and calls connect()
SendTransmits(socks, cur) == cur # 0 /\ socks[cur] = "OPEN"

\* WebSocket.close() on the socket at index i
CloseSocket(socks, i) ==
    IF socks[i] \in {"CONNECTING", "OPEN"} THEN [socks EXCEPT ![i] = "CLOSING"] ELSE socks

WSInit ==
    /\ hookKind \in HookKinds
    /\ hook = "init"
    /\ sockets = << >>
    /\ ws = 0
    /\ reconnectAttempts = 0
    /\ timers = 0
    /\ delays = << >>
    /\ connected = FALSE
    /\ subscribedOn = 0
    /\ origin = << >>
    /\ wsEvent = "none"

\* the hook's effect: new WSClient(path, handleMessage); ws.connect(); setTimeout(subscribe)
Mount ==
    /\ hook = "init"
    /\ Len(sockets) < MaxSockets
    /\ sockets' = ConnectSockets(sockets)
    /\ ws' = Len(sockets')
    /\ hook' = "waiting"
    /\ origin' = Append(origin, "connect")
    /\ wsEvent' = "mount"
    /\ UNCHANGED <<hookKind, reconnectAttempts, timers, delays, connected, subscribedOn>>

\* the hook's delayed subscribe: ws.subscribe(symbols) / ws.send({action: 'subscribe'})
SubscribeTimer ==
    /\ hook = "waiting"
    /\ IF SendTransmits(sockets, ws)
          THEN /\ subscribedOn' = ws
               /\ UNCHANGED <<sockets, ws, origin>>
          ELSE /\ Len(sockets) < MaxSockets
               /\ sockets' = ConnectSockets(sockets)
               /\ ws' = Len(sockets')
               /\ origin' = Append(origin, "send")
               /\ UNCHANGED subscribedOn
    /\ hook' = "mounted"
    /\ wsEvent' = "subscribe"
    /\ UNCHANGED <<hookKind, reconnectAttempts, timers, delays, connected>>

\* the hook's cleanup: clearTimeout(timer); [ws.unsubscribe(symbols);] ws.close()
Unmount ==
    /\ hook \in {"waiting", "mounted"}
    /\ LET afterSend ==
               IF hookKind = "market" /\ ~SendTransmits(sockets, ws)
                  THEN ConnectSockets(sockets)
                  ELSE sockets
           cur == IF hookKind = "market" /\ ~SendTransmits(sockets, ws)
                     THEN Len(afterSend)
                     ELSE ws
       IN  /\ Len(afterSend) <= MaxSockets
           /\ sockets' = IF cur = 0 THEN afterSend ELSE CloseSocket(afterSend, cur)
           /\ ws' = cur
           /\ origin' = IF Len(afterSend) > Len(sockets) THEN Append(origin, "send") ELSE origin
    /\ hook' = "unmounted"
    /\ wsEvent' = "unmount"
    /\ UNCHANGED <<hookKind, reconnectAttempts, timers, delays, connected, subscribedOn>>

\* ws.onopen of socket i
SocketOpen(i) ==
    /\ sockets[i] = "CONNECTING"
    /\ sockets' = [sockets EXCEPT ![i] = "OPEN"]
    /\ reconnectAttempts' = 0
    /\ delays' = << >>
    /\ wsEvent' = "open"
    /\ UNCHANGED <<hookKind, hook, ws, timers, connected, subscribedOn, origin>>

\* ws.onclose of socket i (connection refused, lost, or closed): attemptReconnect()
SocketClose(i) ==
    /\ Live(sockets[i])
    /\ sockets' = [sockets EXCEPT ![i] = "CLOSED"]
    /\ IF CanReconnect(reconnectAttempts)
          THEN /\ reconnectAttempts' = reconnectAttempts + 1
               /\ timers' = timers + 1
               /\ delays' = Append(delays, ReconnectDelay(reconnectAttempts + 1))
          ELSE UNCHANGED <<reconnectAttempts, timers, delays>>
    /\ wsEvent' = "close"
    /\ UNCHANGED <<hookKind, hook, ws, connected, subscribedOn, origin>>

\* the reconnect timeout fires: this.connect()
ReconnectTimer ==
    /\ timers > 0
    /\ Len(sockets) < MaxSockets
    /\ timers' = timers - 1
    /\ sockets' = ConnectSockets(sockets)
    /\ ws' = Len(sockets')
    /\ origin' = Append(origin, "reconnect")
    /\ wsEvent' = "timer"
    /\ UNCHANGED <<hookKind, hook, reconnectAttempts, delays, connected, subscribedOn>>

\* the frames a server sends: the answer to a subscribe, a pushed update or
\* alert, and frames unrelated to a subscription (welcome, heartbeat)
StatusValues == {"success", "active", "failed"}
ServerFrames ==
    [type : {"subscription_status"}, status : StatusValues]
    \cup [type : {"data", "other"}, status : {""}]

\* a subscription is answered and served on the socket the subscribe was written to
ServerSends(i, m) == m.type \in {"subscription_status", "data"} => subscribedOn = i

\* useMarketData.ts:31-33, useAlerts (part_000:32-35): the value handed to setConnected
ConnectedFor(kind, status) ==
    IF kind = "market" THEN status = "success"
    ELSE status \in {"active", "success"}

\* socket i exists, was created by the reconnect timeout and is open
ReconnectedOpen(i) ==
    i <= Len(sockets) /\ origin[i] = "reconnect" /\ sockets[i] = "OPEN"

\* ws.onmessage of socket i: onMessage(JSON.parse(event.data)); the state of an
\* unmounted hook no longer changes
WsMessage(i, m) ==
    /\ sockets[i] = "OPEN"
    /\ ServerSends(i, m)
    /\ connected' = IF m.type = "subscription_status" /\ hook # "unmounted"
                        THEN ConnectedFor(hookKind, m.status)
                        ELSE connected
    /\ wsEvent' = "message"
    /\ UNCHANGED <<hookKind, hook, sockets, ws, reconnectAttempts, timers, delays,
                   subscribedOn, origin>>

WSNext ==
    \/ Mount /\ UNCHANGED <<fetchVars, uiVars>>
    \/ SubscribeTimer /\ UNCHANGED <<fetchVars, uiVars>>
    \/ Unmount /\ UNCHANGED <<fetchVars, uiVars>>
    \/ \E i \in 1..Len(sockets) : SocketOpen(i) /\ UNCHANGED <<fetchVars, uiVars>>
    \/ \E i \in 1..Len(sockets) : SocketClose(i) /\ UNCHANGED <<fetchVars, uiVars>>
    \/ ReconnectTimer /\ UNCHANGED <<fetchVars, uiVars>>
    \/ \E i \in 1..Len(sockets), m \in ServerFrames :
           WsMessage(i, m) /\ UNCHANGED <<fetchVars, uiVars>>

InitWS == WSInit /\ FetchParked /\ UIParked

SpecWS == InitWS /\ [][WSNext]_vars

(***************************************************************************)
(* C1: the retries of WSClient are bounded.  reconnectAttempts stays in    *)
(* 0..5 and always equals the number of reconnects scheduled since the     *)
(* last open (one increment per scheduled reconnect, so at most 5 between  *)
(* two opens); it only goes back to 0 in a step in which a socket opens;   *)
(* and a close at reconnectAttempts = 5 schedules no reconnect.            *)
(***************************************************************************)
C1_BoundedRetries ==
    /\ [](/\ reconnectAttempts \in 0..maxReconnectAttempts
          /\ Len(delays) = reconnectAttempts)
    /\ [][/\ timers' > timers => reconnectAttempts' = reconnectAttempts + 1
          /\ reconnectAttempts' > reconnectAttempts =>
                 /\ reconnectAttempts' = reconnectAttempts + 1
                 /\ timers' = timers + 1
          /\ reconnectAttempts' < reconnectAttempts =>
                 /\ reconnectAttempts' = 0
                 /\ \E i \in 1..Len(sockets) :
                        sockets[i] = "CONNECTING" /\ sockets'[i] = "OPEN"
          /\ reconnectAttempts = maxReconnectAttempts => timers' <= timers]_vars

\* the sixth socket has closed with the counter at 5: nothing is scheduled any more
C1_Witness ==
    /\ reconnectAttempts = maxReconnectAttempts
    /\ timers = 0
    /\ Len(sockets) = maxReconnectAttempts + 1
    /\ \A i \in 1..Len(sockets) : sockets[i] = "CLOSED"

(***************************************************************************)
(* C2 (as claimed): within a run of failed reconnects each delay is        *)
(* strictly greater than the one before.                                   *)
(***************************************************************************)
C2_Original ==
    \A i \in 1..(Len(delays) - 1) : delays[i + 1] > delays[i]

(***************************************************************************)
(* C2 (amended): within a run of failed reconnects every reconnect waits   *)
(* the same fixed delay, reconnectInterval = 3000 ms; there is no backoff. *)
(***************************************************************************)
C2_FixedDelay ==
    \A i \in 1..Len(delays) : delays[i] = reconnectInterval

\* two consecutive failed reconnects have been scheduled
C2_Witness ==
    /\ Len(delays) >= 2
    /\ reconnectAttempts >= 2

(***************************************************************************)
(* C11: once the hook's cleanup has called close(), and the owner calls    *)
(* neither connect() nor send() again, the client creates no new WebSocket *)
(* and never invokes onMessage again.                                      *)
(***************************************************************************)
C11_CloseIsFinal ==
    [][hook = "unmounted" => (Len(sockets') = Len(sockets) /\ wsEvent' # "message")]_vars

(***************************************************************************)
(* C12: at any time at most one WebSocket created by the client is         *)
(* CONNECTING or OPEN.                                                     *)
(***************************************************************************)
C12_SingleLiveSocket ==
    Cardinality({i \in 1..Len(sockets) : sockets[i] \in {"CONNECTING", "OPEN"}}) <= 1

\* Scheduling: the effect runs after the first render, the timeouts set by the
\* hook and by attemptReconnect fire, and a socket does not stay CONNECTING for
\* ever: the handshake succeeds or fails.  The server is free to keep a socket
\* open, and nothing obliges it to send frames.
WSFairness ==
    /\ WF_vars(Mount /\ UNCHANGED <<fetchVars, uiVars>>)
    /\ WF_vars(SubscribeTimer /\ UNCHANGED <<fetchVars, uiVars>>)
    /\ WF_vars(ReconnectTimer /\ UNCHANGED <<fetchVars, uiVars>>)
    /\ \A i \in 1..MaxSockets :
           WF_vars(/\ i <= Len(sockets)
                   /\ sockets[i] = "CONNECTING"
                   /\ (SocketOpen(i) \/ SocketClose(i))
                   /\ UNCHANGED <<fetchVars, uiVars>>)

FairSpecWS == InitWS /\ [][WSNext]_vars /\ WSFairness

(***************************************************************************)
(* C13: if the server accepts every connection and the hook stays mounted, *)
(* then eventually the subscribe frame is transmitted on an open socket: a *)
(* subscribe issued before the socket is open is not lost.                 *)
(***************************************************************************)
C13_SubscribeDelivered ==
    ([](hook # "unmounted")
        /\ [](\A i \in 1..Len(sockets) : sockets[i] \in {"CONNECTING", "OPEN"}))
    => <>(subscribedOn # 0)

(***************************************************************************)
(* C14: when a socket created by the automatic reconnect has opened, the   *)
(* subscribe frame of the hook is sent on it (unless that socket closes    *)
(* again or the hook unmounts first).                                      *)
(***************************************************************************)
C14_Resubscribe ==
    \A i \in 1..MaxSockets :
        (ReconnectedOpen(i) /\ hook \in {"waiting", "mounted"})
        ~> (subscribedOn = i \/ ~ReconnectedOpen(i) \/ hook = "unmounted")

(***************************************************************************)
(* C15: the connected flag of a mounted hook is true only while the        *)
(* client's socket is open and subscribed: it is false initially, becomes  *)
(* true only on a subscription_status message with a success status, and   *)
(* is false again once the socket has closed.                              *)
(***************************************************************************)
C15_ConnectedFlag ==
    /\ ~connected
    /\ [][(~connected /\ connected') => wsEvent' = "message"]_vars
    /\ []((hook \in {"waiting", "mounted"} /\ connected) =>
              (ws # 0 /\ sockets[ws] = "OPEN" /\ subscribedOn = ws))

(***************************************************************************)
(* api.fetch (frontend/lib/api.ts:21-37)                                   *)
(***************************************************************************)
\* HTTP status codes the backend answers with
Statuses == {200, 201, 400, 401, 404, 422, 500}

\* Response.ok: the status is in the range 200-299
ResponseOk(status) == status >= 200 /\ status <= 299

\* JavaScript values of errorData.detail, each with its String() conversion
Details ==
    { [t |-> "undefined", s |-> "undefined"],
      [t |-> "string",    s |-> ""],
      [t |-> "string",    s |-> "Not authenticated"],
      [t |-> "number",    s |-> "0"],
      [t |-> "array",     s |-> "[object Object]"] }

\* JavaScript truthiness of a detail value
Truthy(d) ==
    /\ d.t # "undefined"
    /\ ~(d.t = "string" /\ d.s = "")
    /\ ~(d.t = "number" /\ d.s = "0")

\* response bodies: text that is not JSON, the JSON values null and "a string",
\* and JSON objects with the detail member they carry
Bodies ==
    { [kind |-> k, detail |-> [t |-> "undefined", s |-> "undefined"]] :
          k \in {"text", "null", "jsonstring"} }
    \cup { [kind |-> "object", detail |-> d] : d \in Details }

Responses == { [status |-> st, body |-> b] : st \in Statuses, b \in Bodies }


\* response.json(): parses the body, rejects with a SyntaxError when it is not JSON
JsonParses(body) == body.kind # "text"

Resolved(body) ==
    [kind |-> "resolved", value |-> body, error |-> "", message |-> ""]
Rejected(err, msg) ==
    [kind |-> "rejected", value |-> "", error |-> err, message |-> msg]

\* the fallback of line 33: `Request failed with status ${response.status}`
StatusMessage(status) == "Request failed with status " \o ToString(status)

\* line 32: const errorData = await response.json().catch(() => ({}))
ErrorDataNoCatch(body) ==
    IF JsonParses(body) THEN body ELSE [kind |-> "throws", detail |-> [t |-> "undefined", s |-> "undefined"]]
ErrorData(body) ==
    IF JsonParses(body) THEN body ELSE [kind |-> "object", detail |-> [t |-> "undefined", s |-> "undefined"]]

\* line 33: throw new Error(errorData.detail || `Request failed with status ...`)
\* (reading .detail of null is a TypeError; of a string it is undefined)
ThrowFor(status, errorData) ==
    IF errorData.kind = "throws"
       THEN Rejected("SyntaxError", "Unexpected token")
    ELSE IF errorData.kind = "null"
       THEN Rejected("TypeError", "Cannot read properties of null (reading 'detail')")
    ELSE IF errorData.kind = "object" /\ Truthy(errorData.detail)
       THEN Rejected("Error", errorData.detail.s)
    ELSE Rejected("Error", StatusMessage(status))

\* line 36: return response.json()
ReturnFor(body) ==
    IF JsonParses(body) THEN Resolved(body)
    ELSE Rejected("SyntaxError", "Unexpected token")

FetchInit ==
    /\ fPc = "start"
    /\ fResp \in Responses
    /\ fOut = Pending

\* line 31: if (!response.ok)
FetchCheckOk ==
    /\ fPc = "start"
    /\ fPc' = IF ResponseOk(fResp.status) THEN "ok_body" ELSE "error_body"
    /\ UNCHANGED <<fResp, fOut>>

\* lines 32-33: the error branch
FetchThrow ==
    /\ fPc = "error_body"
    /\ fOut' = ThrowFor(fResp.status, ErrorData(fResp.body))
    /\ fPc' = "done"
    /\ UNCHANGED fResp

\* line 36: the success branch
FetchReturn ==
    /\ fPc = "ok_body"
    /\ fOut' = ReturnFor(fResp.body)
    /\ fPc' = "done"
    /\ UNCHANGED fResp

FetchNext ==
    \/ FetchCheckOk /\ UNCHANGED <<wsVars, uiVars>>
    \/ FetchThrow /\ UNCHANGED <<wsVars, uiVars>>
    \/ FetchReturn /\ UNCHANGED <<wsVars, uiVars>>

InitFetch == FetchInit /\ WSParked /\ UIParked

SpecFetch == InitFetch /\ [][FetchNext]_vars

(***************************************************************************)
(* C10 (as claimed): an ok response always resolves with the parsed body;  *)
(* a non-ok response always rejects with an Error whose message is detail  *)
(* when the body is JSON with a truthy detail and otherwise                *)
(* 'Request failed with status <status>'.                                  *)
(***************************************************************************)
C10_Original ==
    fPc = "done" =>
        /\ ResponseOk(fResp.status) =>
               fOut.kind = "resolved" /\ fOut.value = fResp.body
        /\ ~ResponseOk(fResp.status) =>
               /\ fOut.kind = "rejected"
               /\ fOut.error = "Error"
               /\ IF fResp.body.kind # "text" /\ Truthy(fResp.body.detail)
                     THEN fOut.message = fResp.body.detail.s
                     ELSE fOut.message = StatusMessage(fResp.status)

(***************************************************************************)
(* C10 (amended): for an ok response the promise resolves with the parsed  *)
(* body when the body is JSON and rejects with the parser's SyntaxError    *)
(* when it is not.  For a non-ok response it always rejects and never      *)
(* resolves with data: with an Error whose message is the string           *)
(* conversion of detail when the body is a JSON object with a truthy       *)
(* detail; with 'Request failed with status <status>' when the body is not *)
(* JSON, or is JSON without a truthy detail; and with a TypeError when the *)
(* body is the JSON value null.                                            *)
(***************************************************************************)
C10_FetchOutcome ==
    fPc = "done" =>
        /\ (ResponseOk(fResp.status) /\ fResp.body.kind # "text") =>
               fOut.kind = "resolved" /\ fOut.value = fResp.body
        /\ (ResponseOk(fResp.status) /\ fResp.body.kind = "text") =>
               fOut.kind = "rejected" /\ fOut.error = "SyntaxError"
        /\ ~ResponseOk(fResp.status) =>
               /\ fOut.kind = "rejected"
               /\ fOut.value = ""
               /\ (fResp.body.kind = "object" /\ Truthy(fResp.body.detail)) =>
                      fOut.error = "Error" /\ fOut.message = fResp.body.detail.s
               /\ (\/ fResp.body.kind \in {"text", "jsonstring"}
                   \/ fResp.body.kind = "object" /\ ~Truthy(fResp.body.detail)) =>
                      /\ fOut.error = "Error"
                      /\ fOut.message = StatusMessage(fResp.status)
               /\ fResp.body.kind = "null" => fOut.error = "TypeError"

\* a non-ok response whose body is not JSON has been turned into the status message
C10_Witness ==
    /\ fPc = "done"
    /\ fResp.status = 500
    /\ fResp.body.kind = "text"
    /\ fOut.kind = "rejected"
    /\ fOut.message = "Request failed with status 500"

(***************************************************************************)
(* The component tree: Dashboard (frontend/components/Dashboard.tsx),      *)
(* QuantDashboard and StockAnalysis (frontend/components/                  *)
(* QuantDashboard.tsx) and the panels they render.                         *)
(***************************************************************************)
\* Dashboard.tsx:13  type ViewType
ViewTypes == {"dashboard", "stockAnalysis", "quantDashboard"}

\* the components a page can mount as its root
Roots == {"Dashboard", "HighVolumeScanner", "VATScanner", "MCPTradingPanel"}

\* the panels that fetch backend data
Panels ==
    {"MarketIndices", "OptionChainTable", "MarketStateDetector", "ActiveStrategy",
     "NiftySentimentCards", "LiveTradeSignal", "GreeksHeatmap", "TopStocks",
     "StockAnalysis", "HighVolumeScanner", "VATScanner", "MCPTradingPanel"}

\* panels whose effect ends with setInterval(fetch..., period)
IntervalPanelsNoStrategy ==
    {"MarketStateDetector", "NiftySentimentCards", "VATScanner"}
IntervalPanels ==
    {"MarketStateDetector", "ActiveStrategy", "NiftySentimentCards", "VATScanner"}

\* panels that read their data through useApiQuery
QueryPanels ==
    {"MarketIndices", "OptionChainTable", "LiveTradeSignal", "GreeksHeatmap", "StockAnalysis"}

\* the refetchInterval option a panel passes to useApiQuery (0: none passed)
RefetchInterval(p) ==
    CASE p = "MarketIndices"    -> 10000
      [] p = "OptionChainTable" -> 30000
      [] p = "LiveTradeSignal"  -> 30000
      [] p = "GreeksHeatmap"    -> 60000
      [] OTHER                  -> 0

DashboardChildrenWithScanner(view, tab) ==
    CASE view = "stockAnalysis"  -> {"StockAnalysis", "HighVolumeScanner"}
      [] view = "quantDashboard" ->
             {"QuantDashboard", "NiftySentimentCards", "TopStocks"}
             \cup (IF tab = "signal" THEN {"LiveTradeSignal"} ELSE {"GreeksHeatmap"})
      [] OTHER ->
             {"AuthButton", "MarketStateDetector", "MarketIndices", "OptionChainTable",
              "ActiveStrategy", "RealTimeAlerts"}

\* what Dashboard renders for a view, and QuantDashboard for a tab
DashboardChildren(view, tab) ==
    CASE view = "stockAnalysis"  -> {"StockAnalysis"}
      [] view = "quantDashboard" ->
             {"QuantDashboard", "NiftySentimentCards", "TopStocks"}
             \cup (IF tab = "signal" THEN {"LiveTradeSignal"} ELSE {"GreeksHeatmap"})
      [] OTHER ->
             {"AuthButton", "MarketStateDetector", "MarketIndices", "OptionChainTable",
              "ActiveStrategy", "RealTimeAlerts"}

\* the components on screen
OnScreenOf(r, view, tab) ==
    IF r = "Dashboard" THEN {"Dashboard"} \cup DashboardChildren(view, tab) ELSE {r}

OnScreen == OnScreenOf(root, currentView, qdTab)

Mounted(p) == p \in OnScreen

\* symbols QuantDashboard can select: two fixed buttons and the fetched top stocks
TopSymbols == {"NSE:SBIN-EQ", "NSE:TCS-EQ"}
TopLists == {<< >>, <<"NSE:SBIN-EQ">>, <<"NSE:TCS-EQ", "NSE:SBIN-EQ">>}
SeqRange(q) == {q[i] : i \in 1..Len(q)}

\* StockAnalysis: the keys of the filter tabs
FilterKeys == {"all", "tradable", "TREND", "INTENT"}

\* a query before its first result; retry marks a fetch started by the Retry button
FreshQuery == [status |-> "pending", data |-> FALSE, retry |-> FALSE]

\* values of the history variable last: the cause of the step, the panels that
\* issued requests in it and how many, the MCP tools called, the request completed
NoDone == [panel |-> "none", ok |-> FALSE, retry |-> FALSE]
Quiet(cause) == [cause |-> cause, by |-> {}, n |-> 0, calls |-> {}, done |-> NoDone]
Issued(cause, ps) ==
    [cause |-> cause, by |-> ps, n |-> Cardinality(ps), calls |-> {}, done |-> NoDone]
Completed(p, ok, retry) ==
    [cause |-> "response", by |-> {}, n |-> 0, calls |-> {},
     done |-> [panel |-> p, ok |-> ok, retry |-> retry]]

\* api.market.scanVAT is not among the methods of frontend/lib/api.ts; like the
\* other api.market methods it is taken to issue one request through api.fetch
ScanVATIssuesRequest == TRUE

\* the requests a component issues when it mounts (its effect or its query runs)
FetchesOnMount(p) ==
    /\ p \in Panels
    /\ p = "VATScanner" => ScanVATIssuesRequest

\* mounting the components of `now` in place of the components of `before`
RemountInflight(before, now) ==
    [p \in Panels |->
        IF p \in now /\ p \notin before THEN (IF FetchesOnMount(p) THEN 1 ELSE 0)
        ELSE IF p \in now THEN inflight[p]
        ELSE 0]
RemountQuery(before, now) ==
    [p \in QueryPanels |-> IF p \in now /\ p \in before THEN query[p] ELSE FreshQuery]
MountRequests(before, now) == {p \in now \ before : FetchesOnMount(p)}

UIDashInit ==
    /\ root \in Roots
    /\ currentView = "dashboard"
    /\ qdTab = "signal"
    /\ qdSelected = "NSE:NIFTY50-INDEX"
    /\ qdTop = << >>
    /\ qdLoading = TRUE
    /\ saFilter = "all"
    /\ query = [p \in QueryPanels |-> FreshQuery]

\* the requests and the children's state after setCurrentView(v)
SwitchTo(v) ==
    /\ currentView' = v
    /\ LET now == OnScreenOf(root, v, "signal")
       IN  /\ inflight' = RemountInflight(OnScreen, now)
           /\ query' = RemountQuery(OnScreen, now)
           /\ last' = Issued("mount", MountRequests(OnScreen, now))
    /\ qdTab' = "signal"
    /\ qdSelected' = "NSE:NIFTY50-INDEX"
    /\ qdTop' = << >>
    /\ qdLoading' = TRUE
    /\ saFilter' = "all"
    /\ UNCHANGED root

SetCurrentViewAnywhere(v) ==
    /\ root = "Dashboard"
    /\ v # currentView
    /\ SwitchTo(v)

\* Dashboard.tsx:41/47 and the onBack props of lines 20/25: setCurrentView(v)
SetCurrentView(v) ==
    /\ root = "Dashboard"
    /\ v # currentView
    /\ \/ currentView = "dashboard" /\ v \in {"quantDashboard", "stockAnalysis"}
       \/ currentView \in {"quantDashboard", "stockAnalysis"} /\ v = "dashboard"
    /\ SwitchTo(v)

\* QuantDashboard.tsx:139/148: setActiveTab(t) swaps LiveTradeSignal and GreeksHeatmap
QdSetActiveTab(t) ==
    /\ Mounted("QuantDashboard")
    /\ t \in {"signal", "greeks"}
    /\ t # qdTab
    /\ qdTab' = t
    /\ LET now == OnScreenOf(root, currentView, t)
       IN  /\ inflight' = RemountInflight(OnScreen, now)
           /\ query' = RemountQuery(OnScreen, now)
           /\ last' = Issued("mount", MountRequests(OnScreen, now))
    /\ UNCHANGED <<root, currentView, qdSelected, qdTop, qdLoading, saFilter>>

\* the panel showing selectedStock: its query key holds the symbol, so a new
\* symbol starts a fetch for the new key
SignalPanel == IF qdTab = "signal" THEN "LiveTradeSignal" ELSE "GreeksHeatmap"

\* QuantDashboard.tsx:89/99/121: setSelectedStock(sym)
QdSetSelectedStock(sym) ==
    /\ Mounted("QuantDashboard")
    /\ sym \in {"NSE:NIFTY50-INDEX", "NSE:NIFTYBANK-INDEX"}
              \cup (IF qdLoading THEN {} ELSE SeqRange(qdTop))
    /\ sym # qdSelected
    /\ qdSelected' = sym
    /\ inflight' = [inflight EXCEPT ![SignalPanel] = 1]
    /\ query' = [query EXCEPT ![SignalPanel] = FreshQuery]
    /\ last' = Issued("select", {SignalPanel})
    /\ UNCHANGED <<root, currentView, qdTab, qdTop, qdLoading, saFilter>>

\* QuantDashboard.tsx:30-44: the scanHighVolume('60', 5) call of the mount effect completes
TopStocksResponse(ok, top) ==
    /\ Mounted("TopStocks")
    /\ inflight["TopStocks"] > 0
    /\ qdLoading' = FALSE
    /\ IF ok /\ Len(top) > 0 /\ top[1] # qdSelected
          THEN /\ qdTop' = top
               /\ qdSelected' = top[1]
               /\ inflight' = [inflight EXCEPT !["TopStocks"] = 0, ![SignalPanel] = 1]
               /\ query' = [query EXCEPT ![SignalPanel] = FreshQuery]
               /\ last' = Issued("response", {SignalPanel})
          ELSE /\ qdTop' = IF ok THEN top ELSE qdTop
               /\ inflight' = [inflight EXCEPT !["TopStocks"] = 0]
               /\ last' = Quiet("response")
               /\ UNCHANGED <<qdSelected, query>>
    /\ UNCHANGED <<root, currentView, qdTab, saFilter>>

\* QuantDashboard.tsx:377: setFilter(key)
SaSetFilter(f) ==
    /\ Mounted("StockAnalysis")
    /\ f \in FilterKeys
    /\ f # saFilter
    /\ saFilter' = f
    /\ last' = Quiet("click")
    /\ UNCHANGED <<root, currentView, qdTab, qdSelected, qdTop, qdLoading, inflight, query>>

\* QuantDashboard.tsx:352-355: the Refresh button, disabled while isFetching
SaRefresh ==
    /\ Mounted("StockAnalysis")
    /\ inflight["StockAnalysis"] = 0
    /\ inflight' = [inflight EXCEPT !["StockAnalysis"] = 1]
    /\ last' = Issued("click", {"StockAnalysis"})
    /\ UNCHANGED <<dashVars, query>>

(***************************************************************************)
(* Polling: setInterval in an effect, refetchInterval of useApiQuery.      *)
(***************************************************************************)
\* setInterval(fetchX, period) fires: one more request, whatever is outstanding
IntervalTick(p) ==
    /\ p \in IntervalPanels
    /\ Mounted(p)
    /\ p = "VATScanner" => ScanVATIssuesRequest
    /\ inflight[p] < MaxInflight
    /\ inflight' = [inflight EXCEPT ![p] = @ + 1]
    /\ last' = Issued("interval", {p})
    /\ UNCHANGED <<dashVars, query>>

\* the refetchInterval timer of a query fires: a fetch unless one is running
QueryTick(p) ==
    /\ p \in QueryPanels
    /\ RefetchInterval(p) > 0
    /\ Mounted(p)
    /\ inflight[p] = 0
    /\ inflight' = [inflight EXCEPT ![p] = 1]
    /\ last' = Issued("interval", {p})
    /\ UNCHANGED <<dashVars, query>>

\* a request of a setInterval panel completes (resolved or rejected)
IntervalResponse(p) ==
    /\ p \in IntervalPanels
    /\ Mounted(p)
    /\ inflight[p] > 0
    /\ inflight' = [inflight EXCEPT ![p] = @ - 1]
    /\ last' = Quiet("response")
    /\ UNCHANGED <<dashVars, query>>

\* the fetch of a query completes: success stores the data and clears the error,
\* failure keeps the data and sets the error
QueryResponse(p, ok) ==
    /\ p \in QueryPanels
    /\ Mounted(p)
    /\ inflight[p] > 0
    /\ inflight' = [inflight EXCEPT ![p] = 0]
    /\ query' = [query EXCEPT ![p] =
                    IF ok THEN [status |-> "success", data |-> TRUE, retry |-> FALSE]
                          ELSE [status |-> "error", data |-> query[p].data, retry |-> FALSE]]
    /\ last' = Completed(p, ok, query[p].retry)
    /\ UNCHANGED dashVars

\* OptionChainTable.tsx:20-40: what the component returns
OctView(q, fetching) ==
    IF fetching /\ q.status = "pending" /\ ~q.data THEN "loading"
    ELSE IF q.status = "error" THEN "error+retry"
    ELSE "table"

\* OptionChainTable.tsx:33: the Retry button calls refetch(), which replaces a
\* running fetch by a new one
OctRetry ==
    /\ Mounted("OptionChainTable")
    /\ OctView(query["OptionChainTable"], inflight["OptionChainTable"] > 0) = "error+retry"
    /\ inflight' = [inflight EXCEPT !["OptionChainTable"] = 1]
    /\ query' = [query EXCEPT !["OptionChainTable"].retry = TRUE]
    /\ last' = Issued("click:Retry", {"OptionChainTable"})
    /\ UNCHANGED dashVars


(***************************************************************************)
(* HighVolumeScanner (components/NiftySentimentCards.tsx:373-855)          *)
(***************************************************************************)
Timeframes == {"15", "60"}
ScanKinds == [tf : Timeframes, retry : BOOLEAN]
\* scanResult: null, or a response with or without top_stocks
NoScanResult == [tf |-> "none", stocks |-> FALSE]
NoScans == [k \in ScanKinds |-> 0]

BagSize(bag) ==
    LET RECURSIVE Sum(_)
        Sum(S) == IF S = {} THEN 0
                  ELSE LET x == CHOOSE y \in S : TRUE IN bag[x] + Sum(S \ {x})
    IN  Sum(DOMAIN bag)

HvsOutstanding(scans, analyses) == BagSize(scans) + analyses

HVSInit ==
    /\ hvsPhase = "scanning"
    /\ hvsTimeframe = "15"
    /\ hvsScanResult = [tf |-> "none", stocks |-> FALSE]
    /\ hvsAnalysis = FALSE
    /\ hvsLoading = TRUE
    /\ hvsError = "none"
    /\ hvsScans = IF root = "HighVolumeScanner"
                     THEN [NoScans EXCEPT ![[tf |-> "15", retry |-> FALSE]] = 1]
                     ELSE NoScans
    /\ hvsAnalyses = 0

\* lines 824-835: the error box with its Retry button is rendered iff error is set
HvsRetryShown(err) == err # "none"

\* lines 384-396: scanStocks() up to its await, for the timeframe of the render
\* it was created in
HvsScanStocks(tf, retry, cause) ==
    /\ HvsOutstanding(hvsScans, hvsAnalyses) < MaxScans
    /\ hvsLoading' = TRUE
    /\ hvsError' = "none"
    /\ hvsPhase' = "scanning"
    /\ hvsScans' = [hvsScans EXCEPT ![[tf |-> tf, retry |-> retry]] = @ + 1]
    /\ inflight' = [inflight EXCEPT !["HighVolumeScanner"] = @ + 1]
    /\ last' = Issued(cause, {"HighVolumeScanner"})
    /\ UNCHANGED <<hvsScanResult, hvsAnalysis, hvsAnalyses>>

\* lines 796/805 and the effect of lines 437-439: setTimeframe(tf), then scanStocks()
HvsSetTimeframe(tf) ==
    /\ root = "HighVolumeScanner"
    /\ tf # hvsTimeframe
    /\ hvsTimeframe' = tf
    /\ HvsScanStocks(tf, FALSE, "select")

\* line 829: the Retry button
HvsRetry ==
    /\ root = "HighVolumeScanner"
    /\ HvsRetryShown(hvsError)
    /\ HvsScanStocks(hvsTimeframe, TRUE, "click:Retry")
    /\ UNCHANGED hvsTimeframe

\* lines 813-820: the Refresh button
HvsRefresh ==
    /\ root = "HighVolumeScanner"
    /\ hvsPhase \in {"results", "analysis"}
    /\ HvsScanStocks(hvsTimeframe, FALSE, "click")
    /\ UNCHANGED hvsTimeframe

\* lines 396-405: the scanHighVolume request of kind k completes
HvsScanResponse(k, ok, stocks) ==
    /\ root = "HighVolumeScanner"
    /\ hvsScans[k] > 0
    /\ hvsScans' = [hvsScans EXCEPT ![k] = @ - 1]
    /\ inflight' = [inflight EXCEPT !["HighVolumeScanner"] = @ - 1]
    /\ IF ok
          THEN /\ hvsScanResult' = [tf |-> k.tf, stocks |-> stocks]
               /\ hvsPhase' = "results"
               /\ UNCHANGED hvsError
          ELSE /\ hvsError' = "Failed to scan stocks"
               /\ UNCHANGED <<hvsScanResult, hvsPhase>>
    /\ hvsLoading' = FALSE
    /\ last' = Completed("HighVolumeScanner", ok, k.retry)
    /\ UNCHANGED <<hvsTimeframe, hvsAnalysis, hvsAnalyses>>

\* lines 409-424 and 581: the Option Chain Analysis button of the results view
HvsAnalyze ==
    /\ root = "HighVolumeScanner"
    /\ hvsPhase = "results" /\ ~hvsLoading
    /\ hvsScanResult # NoScanResult /\ hvsScanResult.stocks
    /\ HvsOutstanding(hvsScans, hvsAnalyses) < MaxScans
    /\ hvsPhase' = "analyzing"
    /\ hvsError' = "none"
    /\ hvsAnalyses' = hvsAnalyses + 1
    /\ inflight' = [inflight EXCEPT !["HighVolumeScanner"] = @ + 1]
    /\ last' = Issued("click", {"HighVolumeScanner"})
    /\ UNCHANGED <<hvsTimeframe, hvsScanResult, hvsAnalysis, hvsLoading, hvsScans>>

\* lines 424-433: the bulkOCAnalysis request completes
HvsAnalysisResponse(ok) ==
    /\ root = "HighVolumeScanner"
    /\ hvsAnalyses > 0
    /\ hvsAnalyses' = hvsAnalyses - 1
    /\ inflight' = [inflight EXCEPT !["HighVolumeScanner"] = @ - 1]
    /\ IF ok
          THEN /\ hvsAnalysis' = TRUE
               /\ hvsPhase' = "analysis"
               /\ UNCHANGED hvsError
          ELSE /\ hvsError' = "Failed to analyze option chains"
               /\ hvsPhase' = "results"
               /\ UNCHANGED hvsAnalysis
    /\ last' = Quiet("response")
    /\ UNCHANGED <<hvsTimeframe, hvsScanResult, hvsLoading, hvsScans>>

\* line 594: Back to Volume Scan
HvsBackToResults ==
    /\ root = "HighVolumeScanner"
    /\ hvsPhase = "analysis"
    /\ hvsPhase' = "results"
    /\ last' = Quiet("click")
    /\ UNCHANGED <<hvsTimeframe, hvsScanResult, hvsAnalysis, hvsLoading, hvsError,
                   hvsScans, hvsAnalyses, inflight>>

(***************************************************************************)
(* VATScanner (the two versions agree on the code modelled here)           *)
(***************************************************************************)
VatSymbols == {"NSE:NIFTY50-INDEX", "NSE:NIFTYBANK-INDEX"}

VATInit == vatSymbol = "NSE:NIFTY50-INDEX"

\* setSelectedSymbol(sym): the effect re-runs, fetchVATData() and a new interval
VatSetSelectedSymbol(sym) ==
    /\ root = "VATScanner"
    /\ sym # vatSymbol
    /\ ScanVATIssuesRequest
    /\ inflight["VATScanner"] < MaxInflight
    /\ vatSymbol' = sym
    /\ inflight' = [inflight EXCEPT !["VATScanner"] = @ + 1]
    /\ last' = Issued("select", {"VATScanner"})

\* the refresh button: onClick={fetchVATData}
VatRefresh ==
    /\ root = "VATScanner"
    /\ ScanVATIssuesRequest
    /\ inflight["VATScanner"] < MaxInflight
    /\ inflight' = [inflight EXCEPT !["VATScanner"] = @ + 1]
    /\ last' = Issued("click", {"VATScanner"})
    /\ UNCHANGED vatSymbol

(***************************************************************************)
(* MCPTradingPanel (frontend/components/MCPTradingPanel.tsx)               *)
(***************************************************************************)
McpTabs == {"portfolio", "orders", "trade"}
CallKinds == {"status", "portfolio", "get_orders", "place_order"}
NoCalls == [k \in CallKinds |-> 0]

\* the requests behind a kind of call: GET /mcp/status, or POST /mcp/call per tool
ToolsOf(k) ==
    CASE k = "status"    -> {"/mcp/status"}
      [] k = "portfolio" -> {"get_positions", "get_holdings", "get_funds"}
      [] OTHER           -> {k}

ToolsOfAll(ks) == UNION {ToolsOf(k) : k \in ks}

McpIssued(cause, ks) ==
    [cause |-> cause, by |-> {"MCPTradingPanel"}, n |-> Cardinality(ToolsOfAll(ks)),
     calls |-> ToolsOfAll(ks), done |-> NoDone]

\* lines 151-158: what the effect calls for a tab
EffectCallsAutoTrade(tab) ==
    {"status"} \cup (IF tab = "portfolio" THEN {"portfolio"}
                     ELSE IF tab = "orders" THEN {"get_orders"}
                     ELSE {"place_order"})
EffectCalls(tab) ==
    {"status"} \cup (IF tab = "portfolio" THEN {"portfolio"}
                     ELSE IF tab = "orders" THEN {"get_orders"}
                     ELSE {})

\* line 409: disabled={loading || !mcpStatus?.authenticated}
PlaceOrderDisabledNoAuth(loading, status) == loading
PlaceOrderDisabled(loading, status) == loading \/ status # "authenticated"

AddCalls(calls, ks) == [k \in CallKinds |-> IF k \in ks THEN calls[k] + 1 ELSE calls[k]]
Room(ks) == \A k \in ks : mcpCalls[k] < MaxCalls

MCPInit ==
    /\ mcpTab = "portfolio"
    /\ mcpLoading = (root = "MCPTradingPanel")
    /\ mcpError = "none"
    /\ mcpStatus = "null"
    /\ mcpOrderResult = FALSE
    /\ mcpCalls = IF root = "MCPTradingPanel"
                     THEN AddCalls(NoCalls, EffectCalls("portfolio"))
                     ELSE NoCalls

\* line 208 and the effect of lines 151-158: setActiveTab(t), then the fetches of
\* the effect (fetchPortfolio and fetchOrders start with setLoading(true), setError(null))
McpSetActiveTab(t) ==
    /\ root = "MCPTradingPanel"
    /\ t \in McpTabs /\ t # mcpTab
    /\ Room(EffectCalls(t))
    /\ mcpTab' = t
    /\ mcpCalls' = AddCalls(mcpCalls, EffectCalls(t))
    /\ IF EffectCalls(t) \cap {"portfolio", "get_orders", "place_order"} # {}
          THEN mcpLoading' = TRUE /\ mcpError' = "none"
          ELSE UNCHANGED <<mcpLoading, mcpError>>
    /\ inflight' = [inflight EXCEPT !["MCPTradingPanel"] = @ + Cardinality(EffectCalls(t))]
    /\ last' = McpIssued("tab", EffectCalls(t))
    /\ UNCHANGED <<mcpStatus, mcpOrderResult>>

\* lines 236 and 280: the Refresh buttons of the portfolio and orders tabs
McpRefresh ==
    /\ root = "MCPTradingPanel"
    /\ mcpTab \in {"portfolio", "orders"}
    /\ LET k == IF mcpTab = "portfolio" THEN "portfolio" ELSE "get_orders"
       IN  /\ Room({k})
           /\ mcpCalls' = AddCalls(mcpCalls, {k})
           /\ last' = McpIssued("click", {k})
    /\ mcpLoading' = TRUE
    /\ mcpError' = "none"
    /\ inflight' = [inflight EXCEPT !["MCPTradingPanel"] = @ + 1]
    /\ UNCHANGED <<mcpTab, mcpStatus, mcpOrderResult>>

\* lines 113-125 and 407-409: a click on the Place Order button of the trade tab
McpPlaceOrder ==
    /\ root = "MCPTradingPanel"
    /\ mcpTab = "trade"
    /\ ~PlaceOrderDisabled(mcpLoading, mcpStatus)
    /\ Room({"place_order"})
    /\ mcpLoading' = TRUE
    /\ mcpOrderResult' = FALSE
    /\ mcpError' = "none"
    /\ mcpCalls' = AddCalls(mcpCalls, {"place_order"})
    /\ inflight' = [inflight EXCEPT !["MCPTradingPanel"] = @ + 1]
    /\ last' = McpIssued("click:PlaceOrder", {"place_order"})
    /\ UNCHANGED <<mcpTab, mcpStatus>>

\* lines 57-64: GET /mcp/status completes; a failure is only logged
McpStatusResponse(ok, authenticated) ==
    /\ root = "MCPTradingPanel"
    /\ mcpCalls["status"] > 0
    /\ mcpCalls' = [mcpCalls EXCEPT !["status"] = @ - 1]
    /\ mcpStatus' = IF ok THEN (IF authenticated THEN "authenticated" ELSE "unauthenticated")
                          ELSE mcpStatus
    /\ inflight' = [inflight EXCEPT !["MCPTradingPanel"] = @ - 1]
    /\ last' = Quiet("response")
    /\ UNCHANGED <<mcpTab, mcpLoading, mcpError, mcpOrderResult>>

\* lines 80-95 and 103-109: fetchPortfolio / fetchOrders complete
McpDataResponse(k, ok) ==
    /\ root = "MCPTradingPanel"
    /\ k \in {"portfolio", "get_orders"}
    /\ mcpCalls[k] > 0
    /\ mcpCalls' = [mcpCalls EXCEPT ![k] = @ - 1]
    /\ mcpError' = IF ok THEN mcpError ELSE "Request failed"
    /\ mcpLoading' = FALSE
    /\ inflight' = [inflight EXCEPT !["MCPTradingPanel"] = @ - 1]
    /\ last' = Quiet("response")
    /\ UNCHANGED <<mcpTab, mcpStatus, mcpOrderResult>>

\* lines 126-138: the place_order call completes: an MCP error result, a placed
\* order, or a rejected request.  After a placed order fetchOrders() runs up to its
\* await (setLoading(true), setError(null)) before the finally block sets loading false
McpPlaceResponse(outcome) ==
    /\ root = "MCPTradingPanel"
    /\ mcpCalls["place_order"] > 0
    /\ outcome \in {"isError", "placed", "rejected"}
    /\ IF outcome = "placed"
          THEN /\ mcpCalls["get_orders"] < MaxCalls
               /\ mcpOrderResult' = TRUE
               /\ mcpError' = "none"
               /\ mcpCalls' = [mcpCalls EXCEPT !["place_order"] = @ - 1, !["get_orders"] = @ + 1]
               /\ inflight' = inflight
               /\ last' = McpIssued("response", {"get_orders"})
          ELSE /\ mcpError' = IF outcome = "isError" THEN "Order failed" ELSE "Request failed"
               /\ mcpCalls' = [mcpCalls EXCEPT !["place_order"] = @ - 1]
               /\ inflight' = [inflight EXCEPT !["MCPTradingPanel"] = @ - 1]
               /\ last' = Quiet("response")
               /\ UNCHANGED mcpOrderResult
    /\ mcpLoading' = FALSE
    /\ UNCHANGED <<mcpTab, mcpStatus>>

(***************************************************************************)
(* The specification of the component tree.                                *)
(***************************************************************************)
DashFrame == UNCHANGED <<wsVars, fetchVars, stratVars, alertVars, mdVars, authVars,
                hvsVars, vatVars, mcpVars>>
HvsFrame ==
    UNCHANGED <<wsVars, fetchVars, stratVars, alertVars, mdVars, authVars,
                dashVars, query, vatVars, mcpVars>>
VatFrame ==
    UNCHANGED <<wsVars, fetchVars, stratVars, alertVars, mdVars, authVars,
                dashVars, query, hvsVars, mcpVars>>
McpFrame ==
    UNCHANGED <<wsVars, fetchVars, stratVars, alertVars, mdVars, authVars,
                dashVars, query, hvsVars, vatVars>>

UINext ==
    \/ \E v \in ViewTypes : SetCurrentView(v) /\ DashFrame
    \/ \E t \in {"signal", "greeks"} : QdSetActiveTab(t) /\ DashFrame
    \/ \E sym \in {"NSE:NIFTY50-INDEX", "NSE:NIFTYBANK-INDEX"} \cup TopSymbols :
           QdSetSelectedStock(sym) /\ DashFrame
    \/ \E ok \in BOOLEAN, top \in TopLists : TopStocksResponse(ok, top) /\ DashFrame
    \/ \E f \in FilterKeys : SaSetFilter(f) /\ DashFrame
    \/ SaRefresh /\ DashFrame
    \/ \E p \in IntervalPanels : IntervalTick(p) /\ DashFrame
    \/ \E p \in QueryPanels : QueryTick(p) /\ DashFrame
    \/ \E p \in IntervalPanels : IntervalResponse(p) /\ DashFrame
    \/ \E p \in QueryPanels, ok \in BOOLEAN : QueryResponse(p, ok) /\ DashFrame
    \/ OctRetry /\ DashFrame
    \/ \E tf \in Timeframes : HvsSetTimeframe(tf) /\ HvsFrame
    \/ HvsRetry /\ HvsFrame
    \/ HvsRefresh /\ HvsFrame
    \/ \E k \in ScanKinds, ok \in BOOLEAN, stocks \in BOOLEAN :
           HvsScanResponse(k, ok, stocks) /\ HvsFrame
    \/ HvsAnalyze /\ HvsFrame
    \/ \E ok \in BOOLEAN : HvsAnalysisResponse(ok) /\ HvsFrame
    \/ HvsBackToResults /\ HvsFrame
    \/ \E sym \in VatSymbols : VatSetSelectedSymbol(sym) /\ VatFrame
    \/ VatRefresh /\ VatFrame
    \/ \E t \in McpTabs : McpSetActiveTab(t) /\ McpFrame
    \/ McpRefresh /\ McpFrame
    \/ McpPlaceOrder /\ McpFrame
    \/ \E ok \in BOOLEAN, a \in BOOLEAN : McpStatusResponse(ok, a) /\ McpFrame
    \/ \E k \in {"portfolio", "get_orders"}, ok \in BOOLEAN : McpDataResponse(k, ok) /\ McpFrame
    \/ \E o \in {"isError", "placed", "rejected"} : McpPlaceResponse(o) /\ McpFrame

\* the requests of the first render: each mounted panel's effect or query runs once
MountInit ==
    LET first == {p \in Panels : p \in OnScreenOf(root, "dashboard", "signal")
                                  /\ FetchesOnMount(p)}
        mcp == root = "MCPTradingPanel"
    IN  /\ inflight = [p \in Panels |->
                          IF p \notin first THEN 0
                          ELSE IF p = "MCPTradingPanel"
                               THEN Cardinality(EffectCalls("portfolio"))
                          ELSE 1]
        /\ last = IF mcp THEN McpIssued("mount", EffectCalls("portfolio"))
                         ELSE Issued("mount", first)

InitUI ==
    /\ UIDashInit /\ HVSInit /\ VATInit /\ MCPInit /\ MountInit
    /\ StrategyParked /\ AlertsParked /\ MarketDataParked /\ AuthParked
    /\ WSParked /\ FetchParked

SpecUI == InitUI /\ [][UINext]_vars

\* Scheduling: a timer set by setInterval or by refetchInterval fires every period
\* for as long as its component stays mounted, and a request issued completes.
\* Nothing obliges the user to click.
PollFairness ==
    /\ \A p \in IntervalPanels :
           /\ SF_vars(IntervalTick(p) /\ DashFrame)
           /\ WF_vars(IntervalResponse(p) /\ DashFrame)
    /\ \A p \in QueryPanels :
           /\ SF_vars(QueryTick(p) /\ DashFrame)
           /\ WF_vars((\E ok \in BOOLEAN : QueryResponse(p, ok)) /\ DashFrame)
    /\ WF_vars((\E ok \in BOOLEAN, top \in TopLists : TopStocksResponse(ok, top)) /\ DashFrame)
    /\ WF_vars((\E k \in ScanKinds, ok \in BOOLEAN, stocks \in BOOLEAN :
                    HvsScanResponse(k, ok, stocks)) /\ HvsFrame)
    /\ WF_vars((\E ok \in BOOLEAN : HvsAnalysisResponse(ok)) /\ HvsFrame)
    /\ WF_vars((\E ok \in BOOLEAN, a \in BOOLEAN : McpStatusResponse(ok, a)) /\ McpFrame)
    /\ WF_vars((\E k \in {"portfolio", "get_orders"}, ok \in BOOLEAN :
                    McpDataResponse(k, ok)) /\ McpFrame)
    /\ WF_vars((\E o \in {"isError", "placed", "rejected"} : McpPlaceResponse(o)) /\ McpFrame)

FairSpecUI == InitUI /\ [][UINext]_vars /\ PollFairness

C3_Pollers ==
    {"MarketIndices", "OptionChainTable", "MarketStateDetector", "ActiveStrategy",
     "NiftySentimentCards", "LiveTradeSignal", "GreeksHeatmap", "VATScanner"}

C4_RetryOnClick ==
    /\ (Mounted("OptionChainTable") /\ query["OptionChainTable"].status = "error") =>
           OctView(query["OptionChainTable"], inflight["OptionChainTable"] > 0) = "error+retry"
    /\ (root = "HighVolumeScanner" /\ hvsError # "none") => HvsRetryShown(hvsError)
    /\ last.cause = "click:Retry" => last.n = 1
    /\ (last.done.panel = "OptionChainTable" /\ last.done.retry /\ last.done.ok) =>
           OctView(query["OptionChainTable"], inflight["OptionChainTable"] > 0) = "table"
    /\ (last.done.panel = "HighVolumeScanner" /\ last.done.retry /\ last.done.ok) =>
           hvsPhase = "results" /\ hvsError = "none"

(***************************************************************************)
(* C5: a place_order call is issued only by a click on the Place Order     *)
(* button: no mount effect, tab switch, timer or response handler issues   *)
(* one, and nothing issues a cancel_order call.                            *)
(***************************************************************************)
C5_NoAutoTrading ==
    /\ []("place_order" \in last.calls => last.cause = "click:PlaceOrder")
    /\ []("cancel_order" \notin last.calls)
    /\ [][(root = "MCPTradingPanel" /\ mcpCalls'["place_order"] > mcpCalls["place_order"]) =>
              (last'.cause = "click:PlaceOrder" /\ last'.calls = {"place_order"}
               /\ mcpTab = "trade")]_vars

\* the user has clicked Place Order and the call is outstanding
C5_Witness ==
    /\ root = "MCPTradingPanel"
    /\ last.cause = "click:PlaceOrder"
    /\ last.calls = {"place_order"}
    /\ mcpCalls["place_order"] = 1

(***************************************************************************)
(* C6: a place_order call is never issued while mcpStatus is missing or    *)
(* has authenticated = false, nor while loading is true.                   *)
(***************************************************************************)
C6_OrderGuardrail ==
    [][(root = "MCPTradingPanel" /\ "place_order" \in last'.calls) =>
           (mcpStatus = "authenticated" /\ ~mcpLoading)]_vars

\* an order placed by an authenticated user has been accepted
C6_Witness ==
    /\ root = "MCPTradingPanel"
    /\ mcpStatus = "authenticated"
    /\ mcpOrderResult
    /\ ~mcpLoading

(***************************************************************************)
(* C8: Dashboard's currentView is always one of 'dashboard',               *)
(* 'stockAnalysis', 'quantDashboard' and starts as 'dashboard'; exactly    *)
(* one view is rendered; the only transitions are dashboard ->             *)
(* quantDashboard, dashboard -> stockAnalysis and back from a sub-view to  *)
(* dashboard.                                                              *)
(***************************************************************************)
C8_ViewSwitcher ==
    /\ root = "Dashboard" => currentView = "dashboard"
    /\ [](root = "Dashboard" =>
              /\ currentView \in ViewTypes
              /\ {v \in ViewTypes : DashboardChildren(v, qdTab) \subseteq OnScreen}
                     = {currentView})
    /\ [][(root = "Dashboard" /\ currentView' # currentView) =>
              \/ currentView = "dashboard" /\ currentView' \in {"quantDashboard", "stockAnalysis"}
              \/ currentView \in {"quantDashboard", "stockAnalysis"}
                     /\ currentView' = "dashboard"]_vars

\* the user has opened a sub-view: StockAnalysis alone is rendered
C8_Witness ==
    /\ root = "Dashboard"
    /\ currentView = "stockAnalysis"
    /\ OnScreen = {"Dashboard", "StockAnalysis"}

\* a user who keeps trying every navigation control that is on screen
ClickFairness ==
    /\ \A v \in ViewTypes : SF_vars(SetCurrentView(v) /\ DashFrame)
    /\ \A t \in {"signal", "greeks"} : SF_vars(QdSetActiveTab(t) /\ DashFrame)

ExplorerSpecUI == InitUI /\ [][UINext]_vars /\ ClickFairness

(***************************************************************************)
(* C9 as stated: starting from the Dashboard, clicks bring each of         *)
(* StockAnalysis, QuantDashboard with LiveTradeSignal and GreeksHeatmap,   *)
(* HighVolumeScanner, VATScanner and MCPTradingPanel on screen.            *)
(***************************************************************************)
C9_Original ==
    root = "Dashboard" =>
        \A p \in {"StockAnalysis", "QuantDashboard", "LiveTradeSignal", "GreeksHeatmap",
                  "HighVolumeScanner", "VATScanner", "MCPTradingPanel"} : <>Mounted(p)

(***************************************************************************)
(* C9 (amended): starting from the Dashboard, clicks bring StockAnalysis   *)
(* and QuantDashboard, with LiveTradeSignal and (through its tab)          *)
(* GreeksHeatmap, on screen.  HighVolumeScanner, VATScanner and            *)
(* MCPTradingPanel are never on screen: no click leads to them.            *)
(***************************************************************************)
C9_Reachable ==
    /\ root = "Dashboard" =>
           \A p \in {"StockAnalysis", "QuantDashboard", "LiveTradeSignal", "GreeksHeatmap"} :
               <>Mounted(p)
    /\ [](root = "Dashboard" =>
              OnScreen \cap {"HighVolumeScanner", "VATScanner", "MCPTradingPanel"} = {})

\* two clicks away from the Dashboard: the Greeks tab of QuantDashboard
C9_Witness ==
    /\ root = "Dashboard"
    /\ currentView = "quantDashboard"
    /\ Mounted("GreeksHeatmap")
    /\ ~Mounted("LiveTradeSignal")

(***************************************************************************)
(* ActiveStrategy (components/ActiveStrategy.tsx:17-70): what the panel    *)
(* shows for a response of GET /market/state.                              *)
(***************************************************************************)
\* readme.md:131-135: the states the detector reports
MarketStates == {"TREND", "RANGE", "ADJUSTMENT", "NO-TRADE"}

\* data.adjustment: absent, or { detected, trade_setup }, where trade_setup is
\* null, has no strikes, has a first strike of 0, or has a first strike, and
\* has an action or not
Setups == {"null", "nostrikes", "strike0", "strike"}
Adjustments ==
    {a \in [present : BOOLEAN, detected : BOOLEAN, setup : Setups, action : BOOLEAN] :
        /\ ~a.present => a = NoAdjustment
        /\ a.setup = "null" => ~a.action}

\* the bodies getMarketState() can resolve with: null, or a market-state object
MarketData ==
    {NoData} \cup
    [null : {FALSE}, state : MarketStates, tradable : BOOLEAN, atm_strike : BOOLEAN,
     adjustment : Adjustments]

\* line 33: setup.strikes?.[0] || data.atm_strike
StrikeOf(data) ==
    IF data.adjustment.setup = "strike" THEN "strikes[0]"
    ELSE IF data.atm_strike THEN "atm_strike"
    ELSE "undefined"

\* lines 29-56: the strategy set for a resolved request
StrategyFor(data) ==
    IF ~data.null /\ data.adjustment.present /\ data.adjustment.detected
           /\ data.adjustment.setup # "null"
       THEN [status |-> "signal", strategy_type |-> "Adjustment Trade",
             strike |-> StrikeOf(data),
             action |-> IF data.adjustment.action THEN "setup.action" ELSE "undefined"]
    ELSE IF ~data.null /\ data.tradable /\ data.state = "TREND"
       THEN [status |-> "scanning", strategy_type |-> "Directional Setup",
             strike |-> "undefined", action |-> "undefined"]
    ELSE [status |-> "no_trade",
          strategy_type |-> IF ~data.null /\ data.state = "RANGE"
                               THEN "Range Bound" ELSE "Waiting",
          strike |-> "undefined", action |-> "undefined"]

\* lines 18-22 and 66: the state after mount, fetchStrategy() called once
StrategyInit ==
    /\ asStrategy = InitialStrategy
    /\ asLoading = TRUE
    /\ asInflight = 1
    /\ asOutcome = "none"
    /\ asData = NoData

\* line 68: setInterval(fetchStrategy, 30000) fires
AsTick ==
    /\ asInflight < MaxInflight
    /\ asInflight' = asInflight + 1
    /\ UNCHANGED <<asStrategy, asLoading, asOutcome, asData>>

\* lines 27-56 and 62-64: getMarketState() resolves with data
AsResolve(data) ==
    /\ asInflight > 0
    /\ asInflight' = asInflight - 1
    /\ asStrategy' = StrategyFor(data)
    /\ asLoading' = FALSE
    /\ asOutcome' = "resolved"
    /\ asData' = data

\* lines 57-64: getMarketState() rejects
AsReject ==
    /\ asInflight > 0
    /\ asInflight' = asInflight - 1
    /\ asStrategy' = InitialStrategy
    /\ asLoading' = FALSE
    /\ asOutcome' = "rejected"
    /\ UNCHANGED asData

StrategyFrame ==
    UNCHANGED <<wsVars, fetchVars, dashVars, inflight, query, last, hvsVars, vatVars, mcpVars,
                alertVars, mdVars, authVars>>

StrategyNext ==
    \/ AsTick /\ StrategyFrame
    \/ \E data \in MarketData : AsResolve(data) /\ StrategyFrame
    \/ AsReject /\ StrategyFrame

InitStrategy ==
    /\ StrategyInit /\ PanelsParked /\ AlertsParked /\ MarketDataParked /\ AuthParked
    /\ WSParked /\ FetchParked

SpecStrategy == InitStrategy /\ [][StrategyNext]_vars

(***************************************************************************)
(* C7: whatever the market-state response, ActiveStrategy shows status     *)
(* 'signal', with an action and a strike, only when the state reported is  *)
(* TREND or ADJUSTMENT; for RANGE and NO-TRADE it never shows a signal.    *)
(***************************************************************************)
C7_OnlyTrendAndAdjustment ==
    asOutcome = "resolved" =>
        /\ (asStrategy.status = "signal" /\ asStrategy.action # "undefined"
                /\ asStrategy.strike # "undefined") =>
               (~asData.null /\ asData.state \in {"TREND", "ADJUSTMENT"})
        /\ (~asData.null /\ asData.state \in {"RANGE", "NO-TRADE"}) =>
               asStrategy.status # "signal"

(***************************************************************************)
(* The alert list: useAlerts.handleMessage (lib/hooks/useAlerts.ts, 39-70) *)
(* and RealTimeAlerts.fetchAlerts (components/RealTimeAlerts.tsx:18-40).   *)
(***************************************************************************)
\* slice(0, 5)
MaxAlerts == 5

\* JavaScript truthiness of a string-or-missing value
TruthyStr(x) == x \notin {"undefined", ""}

StringPayload(str) == [NoPayload EXCEPT !.isString = TRUE, !.s = str]

\* message.data of the 'alert' frames a server sends
Payloads ==
    {StringPayload(""), StringPayload("S")}
    \cup [isString : {FALSE}, s : {"undefined"}, message : {"undefined", "", "A"},
          reason : {"undefined", "R"}, description : {"undefined", "D"},
          type : {"undefined", "signal", "SIGNAL", "Warning", "news"}]

\* the payloads of a longer stream of alerts
StreamPayloads ==
    {StringPayload("S"),
     [NoPayload EXCEPT !.message = "A", !.type = "signal"],
     [NoPayload EXCEPT !.message = "B", !.type = "Warning"],
     [NoPayload EXCEPT !.type = "news"]}

\* data.alerts of the responses the polling panel receives
PollBatches ==
    LET a(t, m) == [type |-> t, message |-> m]
    IN  {<< >>,
         <<a("INFO", "A"), a("Signal", "B"), a("INFO", "C")>>,
         <<a("INFO", "D"), a("warning", "E"), a("INFO", "F")>>,
         <<a("INFO", "A"), a("INFO", "D")>>,
         <<a("INFO", "B"), a("Signal", "B")>>,
         <<a("INFO", "F")>>}

\* the value stored in an alert's message field: a string, the payload object
\* itself (a new object for every frame parsed), or the JSON text of a payload
TextString(str) == [kind |-> "string", s |-> str, oid |-> 0, p |-> NoPayload]
TextObject(p, oid) == [kind |-> "object", s |-> "", oid |-> oid, p |-> p]
TextJson(p) == [kind |-> "json", s |-> "", oid |-> 0, p |-> p]

\* `message.data` is truthy
PayloadTruthy(p) == ~p.isString \/ p.s # ""

\* part_000:40-46.  The conditional operator binds weaker than ||, so the
\* expression is (message || reason || description || typeof payload === 'string')
\* ? payload : JSON.stringify(payload)
AlertText(p, oid) ==
    IF \/ ~p.isString /\ TruthyStr(p.message)
       \/ ~p.isString /\ TruthyStr(p.reason)
       \/ ~p.isString /\ TruthyStr(p.description)
       \/ p.isString
       THEN (IF p.isString THEN TextString(p.s) ELSE TextObject(p, oid))
       ELSE TextJson(p)

\* String.prototype.toLowerCase on the type strings that occur
ToLowerCase(str) ==
    CASE str = "SIGNAL"  -> "signal"
      [] str = "Signal"  -> "signal"
      [] str = "Warning" -> "warning"
      [] str = "INFO"    -> "info"
      [] OTHER           -> str

\* part_000:20-25
NormalizeType(raw) ==
    LET value == ToLowerCase(IF TruthyStr(raw) THEN raw ELSE "")
    IN  IF value = "signal" THEN "signal"
        ELSE IF value = "warning" THEN "warning"
        ELSE "info"

\* filter((alert, index, self) => index === self.findIndex(a => a.message === alert.message))
FindIndex(seq, m) == CHOOSE j \in 1..Len(seq) :
                        seq[j].message = m /\ \A k \in 1..(j - 1) : seq[k].message # m
RECURSIVE UniqueFrom(_, _)
UniqueFrom(seq, i) ==
    IF i > Len(seq) THEN << >>
    ELSE (IF FindIndex(seq, seq[i].message) = i THEN <<seq[i]>> ELSE << >>)
         \o UniqueFrom(seq, i + 1)
Unique(seq) == UniqueFrom(seq, 1)

Slice(seq, n) == SubSeq(seq, 1, IF Len(seq) < n THEN Len(seq) ELSE n)

AlertsInit ==
    /\ alSource \in {"texts", "stream", "polling"}
    /\ alerts = << >>
    /\ alClock = 0
    /\ alLast = NoPayload

\* useAlerts.handleMessage for { type: 'alert', data: p }
AlertMessage(p) ==
    /\ \/ alSource = "texts" /\ p \in Payloads /\ alClock < MaxTexts
       \/ alSource = "stream" /\ p \in StreamPayloads /\ alClock < MaxArrivals
    /\ alClock' = alClock + 1
    /\ alLast' = p
    /\ alerts' =
           IF PayloadTruthy(p)
              THEN LET new == [at |-> alClock + 1, type |-> NormalizeType(p.type),
                               message |-> AlertText(p, alClock + 1)]
                   IN  Slice(Unique(<<new>> \o alerts), MaxAlerts)
              ELSE alerts
    /\ UNCHANGED alSource

\* RealTimeAlerts.fetchAlerts: getMarketState() resolves with data.alerts = batch
PollAlerts(batch) ==
    /\ alSource = "polling"
    /\ batch \in PollBatches
    /\ alClock < MaxArrivals
    /\ alClock' = alClock + 1
    /\ alerts' =
           IF Len(batch) > 0
              THEN LET newAlerts == [i \in 1..Len(batch) |->
                                        [at |-> alClock + 1,
                                         type |-> ToLowerCase(batch[i].type),
                                         message |-> TextString(batch[i].message)]]
                   IN  Slice(Unique(newAlerts \o alerts), MaxAlerts)
              ELSE alerts
    /\ UNCHANGED <<alSource, alLast>>

AlertsFrame ==
    UNCHANGED <<wsVars, fetchVars, dashVars, inflight, query, last, hvsVars, vatVars, mcpVars,
                stratVars, mdVars, authVars>>

AlertsNext ==
    \/ \E p \in Payloads : AlertMessage(p) /\ AlertsFrame
    \/ \E batch \in PollBatches : PollAlerts(batch) /\ AlertsFrame

InitAlerts ==
    /\ AlertsInit /\ PanelsParked /\ StrategyParked /\ MarketDataParked /\ AuthParked
    /\ WSParked /\ FetchParked

SpecAlerts == InitAlerts /\ [][AlertsNext]_vars

(***************************************************************************)
(* C16: the alerts list holds at most 5 alerts, newest first, and no two   *)
(* alerts in it carry the same message.                                    *)
(***************************************************************************)
C16_AlertList ==
    LET \* what an alert shows: payload objects with the same fields show the same
        Shown(m) == [m EXCEPT !.oid = 0]
    IN  /\ Len(alerts) <= MaxAlerts
        /\ \A i, j \in 1..Len(alerts) : i < j => alerts[i].at >= alerts[j].at
        /\ \A i, j \in 1..Len(alerts) :
               i # j => Shown(alerts[i].message) # Shown(alerts[j].message)

(***************************************************************************)
(* C17: for an 'alert' message with a payload, the alert stored has as     *)
(* message the first available of payload.message, payload.reason,         *)
(* payload.description, the payload itself when it is a string, and        *)
(* otherwise the JSON text of the payload; its type is 'signal' or         *)
(* 'warning' when payload.type is that word in any letter case, else       *)
(* 'info'.                                                                 *)
(***************************************************************************)
C17_AlertTextAndType ==
    LET FirstAvailable(p) ==
            IF ~p.isString /\ TruthyStr(p.message) THEN TextString(p.message)
            ELSE IF ~p.isString /\ TruthyStr(p.reason) THEN TextString(p.reason)
            ELSE IF ~p.isString /\ TruthyStr(p.description) THEN TextString(p.description)
            ELSE IF p.isString THEN TextString(p.s)
            ELSE TextJson(p)
    IN
    (alSource \in {"texts", "stream"} /\ alClock > 0 /\ PayloadTruthy(alLast)) =>
        /\ alerts[1].at = alClock
        /\ alerts[1].message = FirstAvailable(alLast)
        /\ alerts[1].type =
               (IF alLast.type \in {"signal", "SIGNAL"} THEN "signal"
                ELSE IF alLast.type \in {"warning", "Warning"} THEN "warning"
                ELSE "info")

(***************************************************************************)
(* useMarketData.handleMessage (frontend/lib/hooks/useMarketData.ts:14-34) *)
(***************************************************************************)
MdSymbols == {"X", "Y"}

\* the fields an update can carry, besides the time stamp the hook adds
UpdateFields == {"symbol", "s", "d", "ltp", "vol"}

\* message.data of the market_update frames
Updates ==
    [symbol : {"undefined", "X", "Y"}, s : {"undefined", "Y"}, d : {"undefined", "true"},
     ltp : {"undefined", "1", "2"}, vol : {"undefined", "5"}, last_updated : {0}]

MdMessages ==
    [type : {"market_update"}, status : {""}, hasData : {TRUE}, data : Updates]
    \cup [type : {"market_update", "other"}, status : {""}, hasData : {FALSE}, data : {NoFields}]
    \cup [type : {"subscription_status"}, status : {"success", "failed"},
          hasData : {FALSE}, data : {NoFields}]

\* line 19: update.symbol || (update.d ? update.s : null); "undefined" when falsy
UpdateSymbol(update) ==
    IF update.symbol # "undefined" THEN update.symbol
    ELSE IF update.d # "undefined" THEN update.s
    ELSE "undefined"

\* lines 24-28: { ...prev[symbol], ...update, last_updated: new Date().getTime() }
MergeUpdateReplace(prev, update, now) == [update EXCEPT !.last_updated = now]
MergeUpdate(prev, update, now) ==
    [f \in DOMAIN NoFields |->
        IF f = "last_updated" THEN now
        ELSE IF update[f] # "undefined" THEN update[f]
        ELSE prev[f]]

MarketDataInit ==
    /\ mdData = [sym \in MdSymbols |-> NoFields]
    /\ mdNow = 0
    /\ mdLast = NoMessage

\* handleMessage(m)
MdMessage(m) ==
    /\ mdNow < MaxUpdates
    /\ mdNow' = mdNow + 1
    /\ mdLast' = m
    /\ IF m.type = "market_update" /\ m.hasData
          THEN /\ LET symbol == UpdateSymbol(m.data)
                  IN  mdData' = IF symbol # "undefined"
                                   THEN [mdData EXCEPT ![symbol] =
                                            MergeUpdate(mdData[symbol], m.data, mdNow + 1)]
                                   ELSE mdData
               /\ UNCHANGED connected
          ELSE /\ connected' = IF m.type = "subscription_status"
                                  THEN ConnectedFor("market", m.status)
                                  ELSE connected
               /\ UNCHANGED mdData
    /\ UNCHANGED <<hookKind, hook, sockets, ws, reconnectAttempts, timers, delays,
                   subscribedOn, origin, wsEvent>>

MarketDataNext ==
    \E m \in MdMessages :
        /\ MdMessage(m)
        /\ UNCHANGED <<fetchVars, dashVars, inflight, query, last, hvsVars, vatVars, mcpVars,
                       stratVars, alertVars, authVars>>

InitMarketData ==
    /\ MarketDataInit /\ PanelsParked /\ StrategyParked /\ AlertsParked /\ AuthParked
    /\ WSParked /\ FetchParked

SpecMarketData == InitMarketData /\ [][MarketDataNext]_vars

(***************************************************************************)
(* C18 as stated: a market_update that names a symbol s merges the         *)
(* update's fields into marketData[s], keeps every field that s has and    *)
(* the update does not mention, and leaves the other symbols unchanged;    *)
(* any other message leaves marketData unchanged.                          *)
(***************************************************************************)
C18_Original ==
    [][LET m == mdLast'
           sym == IF m.data.symbol # "undefined" THEN m.data.symbol
                  ELSE IF m.data.d # "undefined" THEN m.data.s ELSE "undefined"
       IN  IF m.type = "market_update" /\ m.hasData /\ sym # "undefined"
              THEN /\ \A f \in UpdateFields :
                          m.data[f] # "undefined" => mdData'[sym][f] = m.data[f]
                   /\ \A f \in UpdateFields \cup {"last_updated"} :
                          (m.data[f] = NoFields[f] /\ mdData[sym][f] # NoFields[f])
                              => mdData'[sym][f] = mdData[sym][f]
                   /\ \A t \in MdSymbols \ {sym} : mdData'[t] = mdData[t]
              ELSE mdData' = mdData]_vars

(***************************************************************************)
(* C18 (amended): a market_update that names a symbol s merges the         *)
(* update's fields into marketData[s], keeps the fields of s the update    *)
(* does not mention except last_updated, which is set to the time of       *)
(* handling, and leaves the other symbols unchanged; any other message     *)
(* leaves marketData unchanged.                                            *)
(***************************************************************************)
C18_FrameEffect ==
    [][LET m == mdLast'
           sym == IF m.data.symbol # "undefined" THEN m.data.symbol
                  ELSE IF m.data.d # "undefined" THEN m.data.s ELSE "undefined"
       IN  IF m.type = "market_update" /\ m.hasData /\ sym # "undefined"
              THEN /\ \A f \in UpdateFields :
                          m.data[f] # "undefined" => mdData'[sym][f] = m.data[f]
                   /\ \A f \in UpdateFields :
                          m.data[f] = "undefined" => mdData'[sym][f] = mdData[sym][f]
                   /\ mdData'[sym].last_updated = mdNow'
                   /\ \A t \in MdSymbols \ {sym} : mdData'[t] = mdData[t]
              ELSE mdData' = mdData]_vars

\* a second update of X without ltp has kept the ltp of the first and left Y alone
C18_Witness ==
    /\ mdNow = 2
    /\ mdLast.type = "market_update" /\ mdLast.hasData
    /\ mdLast.data.symbol = "X" /\ mdLast.data.ltp = "undefined" /\ mdLast.data.vol = "5"
    /\ mdData["X"].ltp = "1" /\ mdData["X"].vol = "5" /\ mdData["X"].last_updated = 2
    /\ mdData["Y"] = NoFields

(***************************************************************************)
(* useAuth (frontend/lib/hooks/useAuth.ts) and AuthButton                  *)
(* (components/NiftySentimentCards.tsx:213-258)                            *)
(***************************************************************************)
\* the data /auth/status returns, by its authenticated field
AuthStatuses == {"authenticated", "unauthenticated"}

\* err.message of a rejected request; "" stands for a missing message
ErrMessages == {"Unauthorized", ""}

\* err.message || fallback
MessageOr(message, fallback) == IF message # "" THEN message ELSE fallback

AuthStep(ev, ok, data, message) == [ev |-> ev, ok |-> ok, data |-> data, message |-> message]

AuthCall(op, chained) == [id |-> authIssued + 1, op |-> op, chained |-> chained]

\* what AuthButton renders (lines 216, 224, 243)
AuthButtonView ==
    IF authLoading THEN "skeleton"
    ELSE IF authStatus = "authenticated" THEN "connected"
    ELSE "login"

AuthInit ==
    /\ authPage = "rendered"
    /\ authStatus = "null"
    /\ authLoading = TRUE
    /\ authError = "null"
    /\ authCalls = {}
    /\ authIssued = 0
    /\ authLast = NoAuthStep

\* checkStatus up to its await: setLoading(true); api.auth.getStatus()
CheckStatusStart(chained) ==
    /\ authLoading' = TRUE
    /\ authCalls' = authCalls \cup {AuthCall("getStatus", chained)}
    /\ authIssued' = authIssued + 1

\* the mount effect (lines 56-58)
AuthMountEffect ==
    /\ authPage = "rendered"
    /\ authPage' = "mounted"
    /\ CheckStatusStart(FALSE)
    /\ authLast' = AuthStep("checkStatus", FALSE, "null", "")
    /\ UNCHANGED <<authStatus, authError>>

\* refresh(), which is checkStatus (line 66)
AuthRefresh ==
    /\ authPage = "mounted"
    /\ authIssued < MaxAuthCalls
    /\ CheckStatusStart(FALSE)
    /\ authLast' = AuthStep("checkStatus", FALSE, "null", "")
    /\ UNCHANGED <<authPage, authStatus, authError>>

\* checkStatus after its await, and the finally of autoLogin when it awaited this call
GetStatusResponse(c, ok, data, message) ==
    /\ authPage = "mounted"
    /\ c \in authCalls /\ c.op = "getStatus"
    /\ authCalls' = authCalls \ {c}
    /\ IF ok
          THEN /\ authStatus' = data
               /\ authError' = "null"
          ELSE /\ authError' = MessageOr(message, "Failed to check auth status")
               /\ authStatus' = "null"
    /\ authLoading' = FALSE
    /\ authLast' = AuthStep("checkStatusDone", ok, IF ok THEN data ELSE "null",
                            IF ok THEN "" ELSE message)
    /\ UNCHANGED <<authPage, authIssued>>

\* login up to its await (lines 33-35); the button is on screen in the last return only
AuthLogin ==
    /\ authPage = "mounted"
    /\ AuthButtonView = "login"
    /\ authIssued < MaxAuthCalls
    /\ authCalls' = authCalls \cup {AuthCall("getLoginUrl", FALSE)}
    /\ authIssued' = authIssued + 1
    /\ authLast' = AuthStep("login", FALSE, "null", "")
    /\ UNCHANGED <<authPage, authStatus, authLoading, authError>>

\* login after its await (lines 36-41); with a login_url the page is left
GetLoginUrlResponse(c, ok, hasUrl, message) ==
    /\ authPage = "mounted"
    /\ c \in authCalls /\ c.op = "getLoginUrl"
    /\ authPage' = IF ok /\ hasUrl THEN "redirected" ELSE authPage
    /\ authCalls' = IF ok /\ hasUrl THEN {} ELSE authCalls \ {c}
    /\ authError' = IF ok THEN authError ELSE MessageOr(message, "Failed to get login URL")
    /\ authLast' = AuthStep("loginDone", ok, "null", IF ok THEN "" ELSE message)
    /\ UNCHANGED <<authStatus, authLoading, authIssued>>

\* autoLogin up to its first await (lines 45-47); it goes on to call checkStatus
AuthAutoLogin ==
    /\ authPage = "mounted"
    /\ authIssued + 1 < MaxAuthCalls
    /\ authLoading' = TRUE
    /\ authCalls' = authCalls \cup {AuthCall("autoLogin", FALSE)}
    /\ authIssued' = authIssued + 1
    /\ authLast' = AuthStep("autoLogin", FALSE, "null", "")
    /\ UNCHANGED <<authPage, authStatus, authError>>

\* autoLogin after its first await: checkStatus() (line 48), or catch and finally
AutoLoginResponse(c, ok, message) ==
    /\ authPage = "mounted"
    /\ c \in authCalls /\ c.op = "autoLogin"
    /\ IF ok
          THEN /\ authLoading' = TRUE
               /\ authCalls' = (authCalls \ {c}) \cup {AuthCall("getStatus", TRUE)}
               /\ authIssued' = authIssued + 1
               /\ authLast' = AuthStep("checkStatus", FALSE, "null", "")
               /\ UNCHANGED authError
          ELSE /\ authError' = MessageOr(message, "Auto-login failed. Please sign in manually.")
               /\ authLoading' = FALSE
               /\ authCalls' = authCalls \ {c}
               /\ authLast' = AuthStep("autoLoginDone", FALSE, "null", message)
               /\ UNCHANGED authIssued
    /\ UNCHANGED <<authPage, authStatus>>

AuthFrame ==
    UNCHANGED <<wsVars, fetchVars, dashVars, inflight, query, last, hvsVars, vatVars, mcpVars,
                stratVars, alertVars, mdVars>>

AuthNext ==
    \/ AuthMountEffect /\ AuthFrame
    \/ AuthRefresh /\ AuthFrame
    \/ AuthLogin /\ AuthFrame
    \/ AuthAutoLogin /\ AuthFrame
    \/ \E c \in authCalls, ok \in BOOLEAN, data \in AuthStatuses, message \in ErrMessages :
          GetStatusResponse(c, ok, data, message) /\ AuthFrame
    \/ \E c \in authCalls, ok \in BOOLEAN, hasUrl \in BOOLEAN, message \in ErrMessages :
          GetLoginUrlResponse(c, ok, hasUrl, message) /\ AuthFrame
    \/ \E c \in authCalls, ok \in BOOLEAN, message \in ErrMessages :
          AutoLoginResponse(c, ok, message) /\ AuthFrame

InitAuth ==
    /\ AuthInit /\ PanelsParked /\ StrategyParked /\ AlertsParked /\ MarketDataParked
    /\ WSParked /\ FetchParked

SpecAuth == InitAuth /\ [][AuthNext]_vars

(***************************************************************************)
(* C19: while a getStatus request of checkStatus is in flight loading is   *)
(* true; when checkStatus has completed loading is false and either it     *)
(* succeeded, status is the returned data and error is null, or it failed, *)
(* status is null and error is the failure message or 'Failed to check     *)
(* auth status'.                                                           *)
(***************************************************************************)
C19_CheckStatus ==
    /\ (\E c \in authCalls : c.op = "getStatus") => authLoading
    /\ authLast.ev = "checkStatusDone" =>
          /\ ~authLoading
          /\ authLast.ok => authStatus = authLast.data /\ authError = "null"
          /\ ~authLast.ok =>
                /\ authStatus = "null"
                /\ authError = (IF authLast.message = "" THEN "Failed to check auth status"
                                ELSE authLast.message)

(***************************************************************************)
(* C20: when the timeframe of HighVolumeScanner was changed while a scan   *)
(* was in flight, then once no request is outstanding (and none of them    *)
(* has left an error) the scan result on screen is the one for the         *)
(* selected timeframe: a late response for the previous timeframe has not  *)
(* replaced it.                                                            *)
(***************************************************************************)
C20_LatestSelectionShown ==
    ( /\ root = "HighVolumeScanner"
      /\ HvsOutstanding(hvsScans, hvsAnalyses) = 0
      /\ hvsPhase = "results"
      /\ hvsError = "none"
      /\ hvsScanResult # NoScanResult )
        => hvsScanResult.tf = hvsTimeframe

====
